---- MODULE Spec2Model ----
(***************************************************************************)
(* Model of Dashboard.py, the Streamlit Superstore dashboard: the csv      *)
(* load, the date filter, the cascading Region -> State -> City            *)
(* multiselects, the eight-way branch chain that builds filtered_df, the   *)
(* presentation steps that add columns to filtered_df and the final        *)
(* Data.csv export.                                                        *)
(*                                                                         *)
(* A DataFrame is [rows, columns]: rows is the sequence of its rows, each  *)
(* carrying its index label, columns the set of its column names.  A       *)
(* boolean Series is a function from index labels to BOOLEAN.              *)
(***************************************************************************)
EXTENDS Integers, Sequences, FiniteSets, TLC

\* Largest number of lines of the csv file of a session.
MaxRows == 2

\* Largest number of rows of a dataset handed to the filter resolution alone.
MaxInputRows == 3

Regions == {"East", "West"}
StateNames == {"NY", "CA"}
Cities == {"LA", "SF"}
Dates == {1, 2}

\* The columns of the csv file that the filter logic reads.
BaseColumns == {"OrderDate", "Region", "State", "City"}

VARIABLES
    file,           \* content of Superstore.csv: a sequence of csv lines
    date1, date2,   \* values of the two date_input widgets
    df,             \* the object bound to df when the script ends
    regionOptions,  \* options of "Pick your Region"
    region,         \* value of "Pick your Region"
    df2,
    stateOptions,   \* options of "Pick the State"
    state,          \* value of "Pick the State"
    df3,
    cityOptions,    \* options of "Pick the City"
    city,           \* value of "Pick the City"
    filtered_df,    \* the object bound to filtered_df when the script ends
    branch,         \* which of the eight branches of lines 69-84 ran (0: none)
    error,          \* TRUE iff the boolean indexing raised IndexingError
    dataCsv,        \* the bytes handed to the Data.csv download button
    pc,             \* position of the resolve harness (SpecResolve only)
    again           \* the resolution applied to its own result (SpecResolve)

vars == <<file, date1, date2, df, regionOptions, region, df2, stateOptions,
          state, df3, cityOptions, city, filtered_df, branch, error, dataCsv,
          pc, again>>

----------------------------------------------------------------------------
(* pandas building blocks *)

Range(s) == {s[i] : i \in DOMAIN s}

Min(S) == CHOOSE x \in S : \A y \in S : x <= y

Max(S) == CHOOSE x \in S : \A y \in S : x >= y

\* The csv lines a file may hold, with Order Date drawn from D.
CsvLines(D) == [OrderDate : D, Region : Regions, State : StateNames, City : Cities]

\* The files of at most max lines.
Files(D, max) == UNION {[1..n -> CsvLines(D)] : n \in 0..max}

\* pd.read_csv: the lines in file order under a RangeIndex 0..n-1.
ReadCsv(f) ==
    [rows |-> [i \in 1..Len(f) |->
                  [label |-> i - 1, OrderDate |-> f[i].OrderDate,
                   Region |-> f[i].Region, State |-> f[i].State,
                   City |-> f[i].City]],
     columns |-> BaseColumns]

\* df.index as a set of labels.
Index(frame) == {frame.rows[i].label : i \in DOMAIN frame.rows}

\* frame[col].isin(values): a boolean Series over the frame's index.
Isin(frame, col, values) ==
    [l \in Index(frame) |->
        \E i \in DOMAIN frame.rows :
            frame.rows[i].label = l /\ frame.rows[i][col] \in values]

\* a & b on boolean Series: aligned on the union of the two indexes, a label
\* missing on one side counting as False.
SeriesAnd(a, b) ==
    [l \in (DOMAIN a) \cup (DOMAIN b) |->
        (l \in DOMAIN a /\ a[l]) /\ (l \in DOMAIN b /\ b[l])]

\* frame[key] raises IndexingError ("Unalignable boolean Series provided as
\* indexer") iff the key does not cover every label of the frame.
Unalignable(frame, key) == ~(Index(frame) \subseteq DOMAIN key)

\* A key applied by position instead of by label (as key.values would be).
GetItemBoolPositional(frame, key) ==
    LET labels == DOMAIN key
        nth(k) == CHOOSE l \in labels : Cardinality({m \in labels : m < l}) = k - 1
        keep(k) == k <= Cardinality(labels) /\ key[nth(k)]
        kept == SelectSeq([k \in DOMAIN frame.rows |-> k], keep)
    IN  [rows |-> [k \in DOMAIN kept |-> frame.rows[kept[k]]],
         columns |-> frame.columns]

\* frame[key] with a boolean Series key: the key is reindexed to the frame's
\* index and the rows whose label maps to True are kept, in order, as a new
\* frame.
GetItemBool(frame, key) ==
    LET keep(r) == r.label \in DOMAIN key /\ key[r.label]
    IN  [rows |-> SelectSeq(frame.rows, keep), columns |-> frame.columns]

\* frame.copy(): the same rows and columns in a new object.
Copy(frame) == frame

\* frame[col].unique(): the distinct values in order of first appearance.
Unique(frame, col) ==
    LET r == frame.rows
        first(i) == \A j \in 1..(i - 1) : r[j][col] # r[i][col]
        kept == SelectSeq([i \in DOMAIN r |-> i], first)
    IN  [k \in DOMAIN kept |-> r[kept[k]][col]]

\* frame.to_csv(index=False): header and lines, the index labels dropped.
ToCsv(frame) ==
    [header |-> frame.columns,
     lines |-> [i \in DOMAIN frame.rows |->
                   [OrderDate |-> frame.rows[i].OrderDate,
                    Region |-> frame.rows[i].Region,
                    State |-> frame.rows[i].State,
                    City |-> frame.rows[i].City]]]

----------------------------------------------------------------------------
(* The script, top to bottom *)

\* Lower bound only.
DateFilterFrom(frame, d1, d2) ==
    LET inRange(r) == r.OrderDate >= d1
    IN  [rows |-> SelectSeq(frame.rows, inRange), columns |-> frame.columns]

\* df = df[(df["Order Date"] >= date1) & (df["Order Date"] <= date2)].copy()
DateFilter(frame, d1, d2) ==
    LET inRange(r) == r.OrderDate >= d1 /\ r.OrderDate <= d2
    IN  [rows |-> SelectSeq(frame.rows, inRange), columns |-> frame.columns]

\* The region filter left out of the cascade.
Df2Unfiltered(frame, regionSel) == Copy(frame)

\* df2 = df[df["Region"].isin(region)] if region else df.copy()
Df2(frame, regionSel) ==
    IF regionSel # {}
    THEN GetItemBool(frame, Isin(frame, "Region", regionSel))
    ELSE Copy(frame)

\* The state selection looked up in the Region column.
Df3WrongColumn(frame2, stateSel) ==
    IF stateSel # {}
    THEN GetItemBool(frame2, Isin(frame2, "Region", stateSel))
    ELSE Copy(frame2)

\* The state filter left out of the cascade.
Df3Unfiltered(frame2, stateSel) == Copy(frame2)

\* df3 = df2[df2["State"].isin(state)] if state else df2.copy()
Df3(frame2, stateSel) ==
    IF stateSel # {}
    THEN GetItemBool(frame2, Isin(frame2, "State", stateSel))
    ELSE Copy(frame2)

\* The chain without its "elif state and city" test.
BranchNoStateCity(regionSel, stateSel, citySel) ==
    LET r == regionSel # {}
        s == stateSel # {}
        c == citySel # {}
    IN  IF ~r /\ ~s /\ ~c THEN 1
        ELSE IF ~s /\ ~c THEN 2
        ELSE IF ~r /\ ~c THEN 3
        ELSE IF r /\ c THEN 5
        ELSE IF r /\ s THEN 6
        ELSE IF c THEN 7
        ELSE 8

\* The if / elif chain of lines 69-84: the number of the branch that runs.
Branch(regionSel, stateSel, citySel) ==
    LET r == regionSel # {}
        s == stateSel # {}
        c == citySel # {}
    IN  IF ~r /\ ~s /\ ~c THEN 1
        ELSE IF ~s /\ ~c THEN 2
        ELSE IF ~r /\ ~c THEN 3
        ELSE IF s /\ c THEN 4
        ELSE IF r /\ c THEN 5
        ELSE IF r /\ s THEN 6
        ELSE IF c THEN 7
        ELSE 8

\* The "state only" key taken from the cascaded subset df3.
SelectionKeyFromDf3(b, frame, frame3, regionSel, stateSel, citySel) ==
    CASE b = 2 -> [frame |-> frame, key |-> Isin(frame, "Region", regionSel)]
      [] b = 3 -> [frame |-> frame, key |-> Isin(frame3, "State", stateSel)]
      [] b = 4 -> [frame |-> frame3,
                   key |-> SeriesAnd(Isin(frame, "State", stateSel),
                                     Isin(frame3, "City", citySel))]
      [] b = 5 -> [frame |-> frame3,
                   key |-> SeriesAnd(Isin(frame, "Region", regionSel),
                                     Isin(frame3, "City", citySel))]
      [] b = 6 -> [frame |-> frame3,
                   key |-> SeriesAnd(Isin(frame, "Region", regionSel),
                                     Isin(frame3, "State", stateSel))]
      [] b = 7 -> [frame |-> frame3, key |-> Isin(frame3, "City", citySel)]
      [] b = 8 -> [frame |-> frame3,
                   key |-> SeriesAnd(SeriesAnd(Isin(frame3, "Region", regionSel),
                                               Isin(frame3, "State", stateSel)),
                                     Isin(frame3, "City", citySel))]

\* The "state and city" branch indexing df with keys from df alone.
SelectionStateCityOnDf(b, frame, frame3, regionSel, stateSel, citySel) ==
    CASE b = 2 -> [frame |-> frame, key |-> Isin(frame, "Region", regionSel)]
      [] b = 3 -> [frame |-> frame, key |-> Isin(frame, "State", stateSel)]
      [] b = 4 -> [frame |-> frame,
                   key |-> SeriesAnd(Isin(frame, "State", stateSel),
                                     Isin(frame, "City", citySel))]
      [] b = 5 -> [frame |-> frame3,
                   key |-> SeriesAnd(Isin(frame, "Region", regionSel),
                                     Isin(frame3, "City", citySel))]
      [] b = 6 -> [frame |-> frame3,
                   key |-> SeriesAnd(Isin(frame, "Region", regionSel),
                                     Isin(frame3, "State", stateSel))]
      [] b = 7 -> [frame |-> frame3, key |-> Isin(frame3, "City", citySel)]
      [] b = 8 -> [frame |-> frame3,
                   key |-> SeriesAnd(SeriesAnd(Isin(frame3, "Region", regionSel),
                                               Isin(frame3, "State", stateSel)),
                                     Isin(frame3, "City", citySel))]

\* Branches 2..8 of lines 71-84: the frame that is indexed and the boolean
\* key it is indexed with, frame being df and frame3 being df3.
Selection(b, frame, frame3, regionSel, stateSel, citySel) ==
    CASE b = 2 -> [frame |-> frame, key |-> Isin(frame, "Region", regionSel)]
      [] b = 3 -> [frame |-> frame, key |-> Isin(frame, "State", stateSel)]
      [] b = 4 -> [frame |-> frame3,
                   key |-> SeriesAnd(Isin(frame, "State", stateSel),
                                     Isin(frame3, "City", citySel))]
      [] b = 5 -> [frame |-> frame3,
                   key |-> SeriesAnd(Isin(frame, "Region", regionSel),
                                     Isin(frame3, "City", citySel))]
      [] b = 6 -> [frame |-> frame3,
                   key |-> SeriesAnd(Isin(frame, "Region", regionSel),
                                     Isin(frame3, "State", stateSel))]
      [] b = 7 -> [frame |-> frame3, key |-> Isin(frame3, "City", citySel)]
      [] b = 8 -> [frame |-> frame3,
                   key |-> SeriesAnd(SeriesAnd(Isin(frame3, "Region", regionSel),
                                               Isin(frame3, "State", stateSel)),
                                     Isin(frame3, "City", citySel))]

\* What is left of filtered_df when the indexing raises.
NoFrame == [rows |-> <<>>, columns |-> {}]

\* Lines 58-84 for given selections: df2, df3, the branch taken, whether the
\* indexing raised, filtered_df, and whether filtered_df is the very object
\* df (branch 1 binds the name, every other branch builds a new frame).
Resolve(frame, regionSel, stateSel, citySel) ==
    LET frame2 == Df2(frame, regionSel)
        frame3 == Df3(frame2, stateSel)
        b == Branch(regionSel, stateSel, citySel)
        sel == Selection(b, frame, frame3, regionSel, stateSel, citySel)
        raised == b # 1 /\ Unalignable(sel.frame, sel.key)
    IN  [df2 |-> frame2,
         df3 |-> frame3,
         branch |-> b,
         error |-> raised,
         filtered_df |-> IF b = 1 THEN frame
                         ELSE IF raised THEN NoFrame
                         ELSE GetItemBool(sel.frame, sel.key),
         aliased |-> (b = 1)]

\* The columns the presentation steps assign on filtered_df.
AddedColumns == {"month_year", "month"}

\* filtered_df["month_year"] = ... ; filtered_df["month"] = ...
AddColumns(frame) == [frame EXCEPT !.columns = @ \cup AddedColumns]

\* A multiselect without a key keeps its value from one run to the next as
\* long as it is built with the same options; built with other options it is
\* a new widget and returns its default, the empty selection.
Multiselect(options, oldOptions, value) ==
    IF options = oldOptions THEN value ELSE {}

\* One run of the whole script.  dt1 and dt2 are the values of the date
\* widgets and w holds, for each multiselect, the options it had in the last
\* run and the value it holds now.
Script(f, dt1, dt2, w) ==
    LET dfIn == DateFilter(ReadCsv(f), dt1, dt2)
        rOpts == Unique(dfIn, "Region")
        rSel == Multiselect(rOpts, w.regionOptions, w.region)
        sOpts == Unique(Df2(dfIn, rSel), "State")
        sSel == Multiselect(sOpts, w.stateOptions, w.state)
        cOpts == Unique(Df3(Df2(dfIn, rSel), sSel), "City")
        cSel == Multiselect(cOpts, w.cityOptions, w.city)
        res == Resolve(dfIn, rSel, sSel, cSel)
        dfOut == IF res.aliased THEN AddColumns(dfIn) ELSE dfIn
    IN  [df |-> dfOut,
         regionOptions |-> rOpts, region |-> rSel, df2 |-> res.df2,
         stateOptions |-> sOpts, state |-> sSel, df3 |-> res.df3,
         cityOptions |-> cOpts, city |-> cSel,
         filtered_df |-> IF res.error THEN NoFrame
                         ELSE AddColumns(res.filtered_df),
         branch |-> res.branch, error |-> res.error,
         dataCsv |-> ToCsv(dfOut)]

\* The widget state of a fresh session: nothing built, nothing selected.
NewSession ==
    [regionOptions |-> <<>>, region |-> {}, stateOptions |-> <<>>,
     state |-> {}, cityOptions |-> <<>>, city |-> {}]

\* The widget state the current run left behind.
Widgets ==
    [regionOptions |-> regionOptions, region |-> region,
     stateOptions |-> stateOptions, state |-> state,
     cityOptions |-> cityOptions, city |-> city]

----------------------------------------------------------------------------
(* The session: the first run, then one full rerun per widget change *)

\* The first run: the date widgets default to the file's first and last
\* Order Date, the multiselects to the empty selection.
Init ==
    /\ file \in Files(Dates, MaxRows) \ {<<>>}
    /\ date1 = Min({file[i].OrderDate : i \in DOMAIN file})
    /\ date2 = Max({file[i].OrderDate : i \in DOMAIN file})
    /\ \E out \in {Script(file, date1, date2, NewSession)} :
           /\ df = out.df
           /\ regionOptions = out.regionOptions
           /\ region = out.region
           /\ df2 = out.df2
           /\ stateOptions = out.stateOptions
           /\ state = out.state
           /\ df3 = out.df3
           /\ cityOptions = out.cityOptions
           /\ city = out.city
           /\ filtered_df = out.filtered_df
           /\ branch = out.branch
           /\ error = out.error
           /\ dataCsv = out.dataCsv
    /\ pc = "script"
    /\ again = NoFrame

\* A rerun: the script runs again from its first line on the same file, with
\* the widget values the user left.
Rerun(dt1, dt2, w) ==
    /\ date1' = dt1
    /\ date2' = dt2
    /\ \E out \in {Script(file, dt1, dt2, w)} :
           /\ df' = out.df
           /\ regionOptions' = out.regionOptions
           /\ region' = out.region
           /\ df2' = out.df2
           /\ stateOptions' = out.stateOptions
           /\ state' = out.state
           /\ df3' = out.df3
           /\ cityOptions' = out.cityOptions
           /\ city' = out.city
           /\ filtered_df' = out.filtered_df
           /\ branch' = out.branch
           /\ error' = out.error
           /\ dataCsv' = out.dataCsv
    /\ UNCHANGED <<file, pc, again>>

\* The user changes "Start Date" or "End Date".
PickDates ==
    \E dt1 \in Dates, dt2 \in Dates :
        /\ pc = "script"
        /\ <<dt1, dt2>> # <<date1, date2>>
        /\ dt1 = date1 \/ dt2 = date2
        /\ Rerun(dt1, dt2, Widgets)

\* The user changes "Pick your Region".
PickRegion ==
    \E v \in SUBSET Range(regionOptions) :
        /\ pc = "script"
        /\ v # region
        /\ Rerun(date1, date2, [Widgets EXCEPT !.region = v])

\* The user changes "Pick the State".
PickState ==
    \E v \in SUBSET Range(stateOptions) :
        /\ pc = "script"
        /\ v # state
        /\ Rerun(date1, date2, [Widgets EXCEPT !.state = v])

\* The user changes "Pick the City".
PickCity ==
    \E v \in SUBSET Range(cityOptions) :
        /\ pc = "script"
        /\ v # city
        /\ Rerun(date1, date2, [Widgets EXCEPT !.city = v])

Next == PickDates \/ PickRegion \/ PickState \/ PickCity

Spec == Init /\ [][Next]_vars

----------------------------------------------------------------------------
(* Lines 58-84 as a function of a dataset and three selection sets *)

InitResolve ==
    /\ df \in {ReadCsv(f) : f \in Files({1}, MaxInputRows)}
    /\ region \in SUBSET Regions
    /\ state \in SUBSET StateNames
    /\ city \in SUBSET Cities
    /\ file = <<>>
    /\ date1 = 1
    /\ date2 = 1
    /\ regionOptions = <<>>
    /\ stateOptions = <<>>
    /\ cityOptions = <<>>
    /\ df2 = NoFrame
    /\ df3 = NoFrame
    /\ filtered_df = NoFrame
    /\ branch = 0
    /\ error = FALSE
    /\ dataCsv = ToCsv(NoFrame)
    /\ pc = "input"
    /\ again = NoFrame

\* The resolution of (df, region, state, city).
ResolveStep ==
    /\ pc = "input"
    /\ \E res \in {Resolve(df, region, state, city)} :
           /\ df2' = res.df2
           /\ df3' = res.df3
           /\ branch' = res.branch
           /\ error' = res.error
           /\ filtered_df' = res.filtered_df
    /\ pc' = "resolved"
    /\ UNCHANGED <<file, date1, date2, df, regionOptions, region, stateOptions,
                   state, cityOptions, city, dataCsv, again>>

\* The same resolution applied to its own result.
ResolveAgain ==
    /\ pc = "resolved"
    /\ again' = Resolve(filtered_df, region, state, city).filtered_df
    /\ pc' = "again"
    /\ UNCHANGED <<file, date1, date2, df, regionOptions, region, df2,
                   stateOptions, state, df3, cityOptions, city, filtered_df,
                   branch, error, dataCsv>>

NextResolve == ResolveStep \/ ResolveAgain

SpecResolve == InitResolve /\ [][NextResolve]_vars

----------------------------------------------------------------------------
(* What the filter is meant to compute, stated without the branch chain *)

\* A row satisfies every non-empty constraint; an empty selection constrains
\* nothing.
Matches(r, regionSel, stateSel, citySel) ==
    /\ regionSel = {} \/ r.Region \in regionSel
    /\ stateSel = {} \/ r.State \in stateSel
    /\ citySel = {} \/ r.City \in citySel

\* The rows of a frame that satisfy the conjunction, in the frame's order.
ConjunctionRows(frame, regionSel, stateSel, citySel) ==
    LET ok(r) == Matches(r, regionSel, stateSel, citySel)
    IN  SelectSeq(frame.rows, ok)

\* The values of a column over the rows of a frame that satisfy the
\* conjunction.
ValuesAmong(frame, col, regionSel, stateSel, citySel) ==
    {frame.rows[i][col] :
        i \in {j \in DOMAIN frame.rows :
                  Matches(frame.rows[j], regionSel, stateSel, citySel)}}

NoDuplicates(s) == Cardinality(Range(s)) = Len(s)

\* The lines of file f dated within [dt1, dt2] that satisfy the conjunction,
\* under the labels read_csv gave them.
ExpectedRows(f, dt1, dt2, regionSel, stateSel, citySel) ==
    LET ok(r) == /\ dt1 <= r.OrderDate
                 /\ r.OrderDate <= dt2
                 /\ Matches(r, regionSel, stateSel, citySel)
    IN  SelectSeq(ReadCsv(f).rows, ok)

----------------------------------------------------------------------------
(* Claims *)

\* C1: for every dataset and every region, state and city selection sets
\* (empty or not, values that match no row included) the filtered dataset the
\* branch chain computes is exactly the dataset's rows that satisfy the
\* conjunction of the non-empty constraints; with the three selections empty
\* it is the dataset itself.
C1_FilteredIsConjunction ==
    pc # "input" =>
        /\ filtered_df.rows = ConjunctionRows(df, region, state, city)
        /\ filtered_df.columns = df.columns
        /\ (region = {} /\ state = {} /\ city = {}) => filtered_df = df

\* C1 witness: rows (East,NY,SF), (West,CA,LA), (West,CA,SF) resolved with
\* region {West}, no state and city {SF} give the (West,CA,SF) row alone.
C1_Witness ==
    /\ pc = "resolved"
    /\ Len(df.rows) = 3
    /\ df.rows[1].Region = "East" /\ df.rows[1].State = "NY" /\ df.rows[1].City = "SF"
    /\ df.rows[2].Region = "West" /\ df.rows[2].State = "CA" /\ df.rows[2].City = "LA"
    /\ df.rows[3].Region = "West" /\ df.rows[3].State = "CA" /\ df.rows[3].City = "SF"
    /\ region = {"West"} /\ state = {} /\ city = {"SF"}
    /\ branch = 5
    /\ filtered_df.rows = <<df.rows[3]>>

\* C2: the State options are the distinct State values among the rows of the
\* date-filtered dataset whose Region is selected (all rows when no region is
\* selected).
C2_StateOptions ==
    /\ Range(stateOptions) = ValuesAmong(df, "State", region, {}, {})
    /\ NoDuplicates(stateOptions)

\* C2 witness: a region is selected and some state of the dataset, one that
\* occurs only in unselected regions, is not offered.
C2_Witness ==
    /\ region # {}
    /\ stateOptions # <<>>
    /\ \E i \in DOMAIN df.rows : df.rows[i].State \notin Range(stateOptions)

\* C3: the City options are the distinct City values among the rows that
\* match both the region and the state selection, each accepting all rows
\* when empty.
C3_CityOptions ==
    /\ Range(cityOptions) = ValuesAmong(df, "City", region, state, {})
    /\ NoDuplicates(cityOptions)

\* C3 witness: a region and a state are selected, a city is offered, and a
\* city of a selected region is withheld because its state is not selected.
C3_Witness ==
    /\ region # {}
    /\ state # {}
    /\ cityOptions # <<>>
    /\ \E i \in DOMAIN df.rows :
           /\ df.rows[i].Region \in region
           /\ df.rows[i].City \notin Range(cityOptions)

\* C4: when the dataset is not empty and every selection is a subset of the
\* options offered at its level, the filtered dataset is not empty.
C4_OfferedChoicesNonEmpty ==
    ( /\ df.rows # <<>>
      /\ region \subseteq Range(regionOptions)
      /\ state \subseteq Range(stateOptions)
      /\ city \subseteq Range(cityOptions) )
    => filtered_df.rows # <<>>

\* C4 witness: all three levels hold a choice among the offered options and
\* the result is a non-empty strict part of the dataset.
C4_Witness ==
    /\ region # {} /\ region \subseteq Range(regionOptions)
    /\ state # {} /\ state \subseteq Range(stateOptions)
    /\ city # {} /\ city \subseteq Range(cityOptions)
    /\ filtered_df.rows # <<>>
    /\ Len(filtered_df.rows) < Len(df.rows)

\* C5: the resolution is idempotent: applied with the same selections to its
\* own result it returns that result.
C5_Idempotent == pc = "again" => again = filtered_df

\* C5 witness: a resolution with three non-empty selections that kept some
\* rows and dropped others has been applied to its own result.
C5_Witness ==
    /\ pc = "again"
    /\ region # {} /\ state # {} /\ city # {}
    /\ filtered_df.rows # <<>>
    /\ Len(filtered_df.rows) < Len(df3.rows)
    /\ Len(df3.rows) < Len(df.rows)

\* C6: the resolution never raises, whatever the dataset (the empty one
\* included) and the selections: every boolean key applied to df3 covers
\* every row label of df3.
C6_NeverRaises ==
    /\ ~error
    /\ (pc # "input" /\ branch # 1) =>
           LET sel == Selection(branch, df, df3, region, state, city)
           IN  Index(sel.frame) \subseteq DOMAIN sel.key

\* C6 witness: three non-empty selections that match no row of a non-empty
\* dataset: a key built over the whole of df was applied to a smaller df3 and
\* the result is empty, not an error.
C6_Witness ==
    /\ pc = "resolved"
    /\ branch = 4
    /\ region # {}
    /\ df3.rows # <<>>
    /\ Len(df3.rows) < Len(df.rows)
    /\ filtered_df.rows = <<>>
    /\ ~error

\* C7: the date-filtered dataset df has the same rows and the same columns
\* once the script has produced and presented the filtered dataset as it had
\* before the resolution.
C7_InputNotMutated ==
    /\ df.columns = BaseColumns
    /\ df.rows = DateFilter(ReadCsv(file), date1, date2).rows

\* C8: the rows of the Data.csv export are exactly the rows of the filtered
\* dataset.
C8_ExportIsFiltered == dataCsv.lines = ToCsv(filtered_df).lines

\* C9: after every rerun the filtered dataset is the conjunction filter of
\* the current selections over the current date range of the file, whatever
\* the selections, dates and filtered result of the runs before.
C9_RerunDependsOnCurrentOnly ==
    [][filtered_df'.rows =
          ExpectedRows(file', date1', date2', region', state', city')]_vars

\* C9 witness: the date range has been narrowed to one of the file's two
\* dates and a region and a city have been chosen after it.
C9_Witness ==
    /\ Len(file) = 2
    /\ file[1].OrderDate # file[2].OrderDate
    /\ date1 = date2
    /\ region # {}
    /\ city # {}
    /\ Len(filtered_df.rows) = 1

\* C10: each of the eight empty / non-empty combinations is taken by one of
\* the first seven branches, the final else is never reached, and three
\* non-empty selections take the "state and city" branch.
C10_ElseUnreachable ==
    pc # "input" =>
        /\ branch \in 1..7
        /\ (region # {} /\ state # {} /\ city # {}) => branch = 4

\* C10 witness: three non-empty selections were resolved by branch 4.
C10_Witness ==
    /\ pc = "resolved"
    /\ region # {} /\ state # {} /\ city # {}
    /\ branch = 4

====
